---- MODULE Spec2Model ----
(***************************************************************************)
(* Audio spectrum visualizer (src/main.py): a PortAudio callback thread    *)
(* computes a gated magnitude spectrum per hardware buffer and puts it     *)
(* into a bounded queue.Queue; the Tk main thread drains the queue every   *)
(* 16 ms in process_queue and redraws the bars; SIGINT, SIGTERM and the    *)
(* window-close event run Application.stop.                                *)
(*                                                                         *)
(* Two threads are modelled.  The audio thread runs _audio_callback.  The  *)
(* main thread runs run(), the Tk mainloop, process_queue and stop(); a    *)
(* Python signal handler runs on the main thread between two bytecodes of  *)
(* whatever the main thread is executing, so the main thread is a stack of *)
(* program counters whose top element is the code that is executing.       *)
(* Program counters are named after the source line they stand at.         *)
(*                                                                         *)
(* Magnitudes are fixed-point numbers in hundredths (0.05 is 5).           *)
(***************************************************************************)
EXTENDS Integers, Sequences, FiniteSets, TLC

\* ---- program constants (src/main.py:10-13) ----
WINDOW_SIZE == 1024
NUM_BARS == 60
NOISE_THRESHOLD == 5

\* max_height in update_bars (src/main.py:55) and the layout width of
\* bar_width = 800 // NUM_BARS (src/main.py:44, 56)
max_height == 400
layout_width == 800
bar_width == layout_width \div NUM_BARS

\* ---- bounds of the model ----
\* queue.Queue(maxsize=...) of Application.__init__; the program uses 100, the
\* model a small capacity, every operation being uniform in the capacity.
maxsize == 2
\* number of hardware buffers the device delivers (callback invocations)
MaxCallbacks == 4
\* number of shutdown requests (SIGINT, SIGTERM, WM_DELETE_WINDOW) delivered
MaxRequests == 2

VARIABLES
    app_is_running,         \* Application.is_running
    visualizer_is_running,  \* SpectrumVisualizer.is_running
    audio_is_running,       \* AudioStream.is_running
    stream,                 \* AudioStream.stream: "none", "open", "active", "closed"
    data_queue,             \* Application.data_queue, oldest frame first
    cbpc,                   \* audio thread: "idle", "cb_98", "cb_101"
    stack,                  \* main thread: program counters, innermost last
    spectrum,               \* local of process_queue: the frame just dequeued
    phase,                  \* main(): "run_171", "run_172", "mainloop", "exited"
    exit_status,            \* argument of sys.exit, -1 while the process lives
    rootAlive,              \* the Tk root window exists
    pendingTicks,           \* Tcl timers carrying process_queue, by scheduling site
    bars,                   \* canvas coordinates of the bars
    nRequests,              \* shutdown requests delivered so far
    atStop,                 \* history: frames accepted and taken when stop cleared its flags
    invoked,                \* history: number of callback invocations
    enqueued,               \* history: ids of the frames put_nowait accepted
    dropped,                \* history: number of queue.Full drops
    rendered,               \* history: ids of the frames passed to update_bars
    drawn,                  \* history: ids of the frames drawn on the canvas
    stopSteps               \* history: how often each step of Application.stop ran

vars == <<app_is_running, visualizer_is_running, audio_is_running, stream,
          data_queue, cbpc, stack, spectrum, phase, exit_status, rootAlive,
          pendingTicks, bars, nRequests, atStop, invoked, enqueued, dropped, rendered,
          drawn, stopSteps>>

flagVars == <<app_is_running, visualizer_is_running, audio_is_running>>
histVars == <<invoked, enqueued, dropped, rendered, drawn, stopSteps>>
pipeVars == <<invoked, enqueued, dropped, rendered, drawn>>

\* ---- helpers ----
NoFrame == [id |-> 0, data |-> <<>>]

Top == stack[Len(stack)]
Pop == SubSeq(stack, 1, Len(stack) - 1)
Goto(pc) == [stack EXCEPT ![Len(stack)] = pc]
MainAt(pc) == phase # "exited" /\ stack # <<>> /\ Top = pc

Max(s) == CHOOSE m \in {s[i] : i \in DOMAIN s} : \A j \in DOMAIN s : s[j] <= m

\* the steps of Application.stop that the history counts: the stream step is
\* counted by what it found (an open stream, a closed one, none), the teardown
\* by whether the root window still existed
StopStepNames == {"flag", "visualizer", "audio_flag", "close", "reclose",
                  "no_stream", "cancel", "destroy", "redestroy"}
Count(step) == [stopSteps EXCEPT ![step] = @ + 1]

\* number of callbacks that reached put_nowait
Attempts == Len(enqueued) + dropped

\* ---- SpectrumTransform: lines 102-104 of _audio_callback ----
\* np.abs(np.fft.rfft(.., n=WINDOW_SIZE)) has WINDOW_SIZE // 2 + 1 bins.
NumBins == WINDOW_SIZE \div 2 + 1

\* The magnitudes the transform produces for the buffers the device delivers:
\* silence, noise at and below the threshold, a tone in bin 6 (index 5) with
\* a weaker harmonic in bin 12 over a noise floor, and the same tone with
\* further energy above bar NUM_BARS.
RawSpectra ==
    { [i \in 1..NumBins |-> 0],
      [i \in 1..NumBins |-> IF i % 2 = 0 THEN NOISE_THRESHOLD ELSE 3],
      [i \in 1..NumBins |-> IF i = 6 THEN 250 ELSE IF i = 12 THEN 100
                            ELSE IF i % 3 = 0 THEN 4 ELSE 0],
      [i \in 1..NumBins |-> IF i = 6 THEN 250 ELSE IF i = 12 THEN 100
                            ELSE IF i > NUM_BARS THEN 900 ELSE 1] }

\* fft_data[:NUM_BARS]
Truncate(fft_data) == SubSeq(fft_data, 1, NUM_BARS)

\* the gate with the comparison >= in place of >
NoiseGate_Inclusive(fft_data) ==
    [i \in 1..Len(fft_data) |->
        IF fft_data[i] >= NOISE_THRESHOLD THEN fft_data[i] ELSE 0]

\* np.where(fft_data > NOISE_THRESHOLD, fft_data, 0)
NoiseGate(fft_data) ==
    [i \in 1..Len(fft_data) |->
        IF fft_data[i] > NOISE_THRESHOLD THEN fft_data[i] ELSE 0]

SpectrumTransform(raw) == NoiseGate(Truncate(raw))

\* ---- BoundedSpectrumQueue: queue.Queue(maxsize) ----
\* put_nowait raises queue.Full when qsize() >= maxsize and appends otherwise;
\* get_nowait raises queue.Empty on an empty queue and pops the head otherwise.
Full_OffByOne(q) == Len(q) > maxsize
Full(q) == Len(q) >= maxsize
put_nowait(q, item) == Append(q, item)
empty(q) == Len(q) = 0
get_nowait_Lifo(q) ==
    [item |-> q[Len(q)], rest |-> SubSeq(q, 1, Len(q) - 1)]
get_nowait(q) == [item |-> Head(q), rest |-> Tail(q)]

\* ---- BarMapper: lines 55-74 of update_bars ----
AllZero(s) == \A i \in DOMAIN s : s[i] = 0

\* np.interp(spectrum, (0, max(spectrum)), (0, max_height)), then np.clip;
\* the quotient is taken in whole pixels
\* the mapping without the scaling to the frame's peak (clipping only)
Interp_Unscaled(x, peak) == x
Interp(x, peak) == (x * max_height) \div peak
Clip(x) == IF x < 0 THEN 0 ELSE IF x > max_height THEN max_height ELSE x
BarHeights(s) == [i \in DOMAIN s |-> Clip(Interp(s[i], Max(s)))]

\* canvas.coords(bar, 0, 0, 0, 0) for every bar
CollapsedBars == [i \in 1..NUM_BARS |-> <<0, 0, 0, 0>>]
\* canvas.coords(bar, x0, height, x1, max_height), bar i of the code is i - 1
MappedBars(s) ==
    [i \in 1..NUM_BARS |->
        <<(i - 1) * bar_width, max_height - BarHeights(s)[i],
          i * bar_width - 2, max_height>>]
\* _initialize_bars
InitialBars ==
    [i \in 1..NUM_BARS |->
        <<(i - 1) * bar_width, 400, (i - 1) * bar_width + bar_width - 2, 400>>]

\* nothing recorded: no stop has cleared a flag yet
NoMarks == [enq |-> -1, deq |-> -1, enqAudio |-> -1]

\* ---- initial state: Application() has been constructed, run() not begun ----
Init ==
    /\ app_is_running = TRUE
    /\ visualizer_is_running = TRUE
    /\ audio_is_running = TRUE
    /\ stream = "none"
    /\ data_queue = <<>>
    /\ cbpc = "idle"
    /\ stack = <<>>
    /\ spectrum = NoFrame
    /\ phase = "run_171"
    /\ exit_status = -1
    /\ rootAlive = TRUE
    /\ pendingTicks = {}
    /\ bars = InitialBars
    /\ nRequests = 0
    /\ atStop = NoMarks
    /\ invoked = 0
    /\ enqueued = <<>>
    /\ dropped = 0
    /\ rendered = <<>>
    /\ drawn = <<>>
    /\ stopSteps = [s \in StopStepNames |-> 0]

\* =========================== audio thread ===========================
\* PortAudio invokes the callback once per hardware buffer of an active stream.
CallbackInvoke ==
    /\ phase # "exited"
    /\ stream = "active"
    /\ cbpc = "idle"
    /\ invoked < MaxCallbacks
    /\ invoked' = invoked + 1
    /\ cbpc' = "cb_98"
    /\ UNCHANGED <<flagVars, stream, data_queue, stack, spectrum, phase,
                   exit_status, rootAlive, pendingTicks, bars, nRequests, atStop,
                   enqueued, dropped, rendered, drawn, stopSteps>>

\* the callback without its gate
CallbackCheck_IgnoresFlag ==
    /\ phase # "exited"
    /\ cbpc = "cb_98"
    /\ cbpc' = "cb_101"
    /\ UNCHANGED <<flagVars, stream, data_queue, stack, spectrum, phase,
                   exit_status, rootAlive, pendingTicks, bars, nRequests, atStop,
                   histVars>>

\* lines 98-99: if not self.is_running: return
CallbackCheck ==
    /\ phase # "exited"
    /\ cbpc = "cb_98"
    /\ cbpc' = IF audio_is_running THEN "cb_101" ELSE "idle"
    /\ UNCHANGED <<flagVars, stream, data_queue, stack, spectrum, phase,
                   exit_status, rootAlive, pendingTicks, bars, nRequests, atStop,
                   histVars>>

\* the callback with a drop-oldest policy: a full queue loses its head
CallbackPut_DropOldest ==
    /\ phase # "exited"
    /\ cbpc = "cb_101"
    /\ \E raw \in RawSpectra :
         LET frame == [id |-> Attempts + 1, data |-> SpectrumTransform(raw)]
         IN  IF Full(data_queue)
             THEN /\ data_queue' = Append(Tail(data_queue), frame)
                  /\ dropped' = dropped + 1
                  /\ UNCHANGED enqueued
             ELSE /\ data_queue' = put_nowait(data_queue, frame)
                  /\ enqueued' = Append(enqueued, frame.id)
                  /\ UNCHANGED dropped
    /\ cbpc' = "idle"
    /\ UNCHANGED <<flagVars, stream, stack, spectrum, phase, exit_status,
                   rootAlive, pendingTicks, bars, nRequests, atStop, invoked, rendered,
                   drawn, stopSteps>>

\* the callback with put() in place of put_nowait(): it waits for a free slot
CallbackPut_Blocking ==
    /\ phase # "exited"
    /\ cbpc = "cb_101"
    /\ ~Full(data_queue)
    /\ \E raw \in RawSpectra :
         LET frame == [id |-> Attempts + 1, data |-> SpectrumTransform(raw)]
         IN  /\ data_queue' = put_nowait(data_queue, frame)
             /\ enqueued' = Append(enqueued, frame.id)
             /\ UNCHANGED dropped
    /\ cbpc' = "idle"
    /\ UNCHANGED <<flagVars, stream, stack, spectrum, phase, exit_status,
                   rootAlive, pendingTicks, bars, nRequests, atStop, invoked, rendered,
                   drawn, stopSteps>>

\* lines 101-107: transform, gate, put_nowait; queue.Full is swallowed
CallbackPut ==
    /\ phase # "exited"
    /\ cbpc = "cb_101"
    /\ \E raw \in RawSpectra :
         LET frame == [id |-> Attempts + 1, data |-> SpectrumTransform(raw)]
         IN  IF Full(data_queue)
             THEN /\ dropped' = dropped + 1
                  /\ UNCHANGED <<data_queue, enqueued>>
             ELSE /\ data_queue' = put_nowait(data_queue, frame)
                  /\ enqueued' = Append(enqueued, frame.id)
                  /\ UNCHANGED dropped
    /\ cbpc' = "idle"
    /\ UNCHANGED <<flagVars, stream, stack, spectrum, phase, exit_status,
                   rootAlive, pendingTicks, bars, nRequests, atStop, invoked, rendered,
                   drawn, stopSteps>>

\* ====================== main thread: run and main ======================
\* main() leaving with status 1 from its except branch when start() fails
RunStartAudio_ExitsNonZero ==
    /\ phase = "run_171"
    /\ stack = <<>>
    /\ \/ /\ stream' = "active"
          /\ phase' = "run_172"
          /\ UNCHANGED exit_status
       \/ /\ stream' \in {"none", "open"}
          /\ phase' = "exited"
          /\ exit_status' = 1
    /\ UNCHANGED <<flagVars, data_queue, cbpc, stack, spectrum, rootAlive,
                   pendingTicks, bars, nRequests, atStop, histVars>>

\* line 171, AudioStream.start: sd.InputStream(...) and stream.start(); either
\* call may raise (no such device), and main() then logs and exits with 0.
RunStartAudio ==
    /\ phase = "run_171"
    /\ stack = <<>>
    /\ \/ /\ stream' = "active"
          /\ phase' = "run_172"
          /\ UNCHANGED exit_status
       \/ /\ stream' \in {"none", "open"}
          /\ phase' = "exited"
          /\ exit_status' = 0
    /\ UNCHANGED <<flagVars, data_queue, cbpc, stack, spectrum, rootAlive,
                   pendingTicks, bars, nRequests, atStop, histVars>>

\* line 172: self.root.after(16, self.process_queue)
RunScheduleTick ==
    /\ phase = "run_172"
    /\ stack = <<>>
    /\ pendingTicks' = pendingTicks \cup {"run"}
    /\ phase' = "mainloop"
    /\ UNCHANGED <<flagVars, stream, data_queue, cbpc, stack, spectrum,
                   exit_status, rootAlive, bars, nRequests, atStop, histVars>>

\* line 173 returns once the root window is gone; main() reaches sys.exit(0)
MainloopExit ==
    /\ phase = "mainloop"
    /\ stack = <<>>
    /\ ~rootAlive
    /\ phase' = "exited"
    /\ exit_status' = 0
    /\ UNCHANGED <<flagVars, stream, data_queue, cbpc, stack, spectrum,
                   rootAlive, pendingTicks, bars, nRequests, atStop, histVars>>

\* ===================== main thread: process_queue =====================
\* the mainloop fires a due timer
TickFire ==
    /\ phase = "mainloop"
    /\ stack = <<>>
    /\ rootAlive
    /\ \E t \in pendingTicks :
         pendingTicks' = pendingTicks \ {t}
    /\ stack' = <<"pq_138">>
    /\ UNCHANGED <<flagVars, stream, data_queue, cbpc, spectrum, phase,
                   exit_status, rootAlive, bars, nRequests, atStop, histVars>>

\* process_queue without its entry check
ProcessQueueCheck_IgnoresFlag ==
    /\ MainAt("pq_138")
    /\ stack' = Goto("pq_142")
    /\ UNCHANGED <<flagVars, stream, data_queue, cbpc, spectrum, phase,
                   exit_status, rootAlive, pendingTicks, bars, nRequests, atStop,
                   histVars>>

\* lines 138-139: if not self.is_running: return
ProcessQueueCheck ==
    /\ MainAt("pq_138")
    /\ stack' = IF app_is_running THEN Goto("pq_142") ELSE Pop
    /\ UNCHANGED <<flagVars, stream, data_queue, cbpc, spectrum, phase,
                   exit_status, rootAlive, pendingTicks, bars, nRequests, atStop,
                   histVars>>

\* the drain loop without the flag: while not self.data_queue.empty()
ProcessQueueLoop_IgnoresFlag ==
    /\ MainAt("pq_142")
    /\ stack' = IF ~empty(data_queue)
                THEN Goto("pq_143") ELSE Goto("pq_150")
    /\ UNCHANGED <<flagVars, stream, data_queue, cbpc, spectrum, phase,
                   exit_status, rootAlive, pendingTicks, bars, nRequests, atStop,
                   histVars>>

\* line 142: while not self.data_queue.empty() and self.is_running
ProcessQueueLoop ==
    /\ MainAt("pq_142")
    /\ stack' = IF ~empty(data_queue) /\ app_is_running
                THEN Goto("pq_143") ELSE Goto("pq_150")
    /\ UNCHANGED <<flagVars, stream, data_queue, cbpc, spectrum, phase,
                   exit_status, rootAlive, pendingTicks, bars, nRequests, atStop,
                   histVars>>

\* line 143: spectrum = self.data_queue.get_nowait(); queue.Empty ends the loop
ProcessQueueGet ==
    /\ MainAt("pq_143")
    /\ IF empty(data_queue)
       THEN /\ stack' = Goto("pq_150")
            /\ UNCHANGED <<data_queue, spectrum>>
       ELSE /\ spectrum' = get_nowait(data_queue).item
            /\ data_queue' = get_nowait(data_queue).rest
            /\ stack' = Goto("ub_52")
    /\ UNCHANGED <<flagVars, stream, cbpc, phase, exit_status, rootAlive,
                   pendingTicks, bars, nRequests, atStop, histVars>>

\* line 144 and lines 52-53: update_bars(spectrum) is entered and returns at
\* once when the visualizer is stopped
UpdateBarsCheck ==
    /\ MainAt("ub_52")
    /\ rendered' = Append(rendered, spectrum.id)
    /\ IF visualizer_is_running
       THEN /\ stack' = Goto("ub_58")
            /\ UNCHANGED spectrum
       ELSE /\ stack' = Goto("pq_142")
            /\ spectrum' = NoFrame
    /\ UNCHANGED <<flagVars, stream, data_queue, cbpc, phase, exit_status,
                   rootAlive, pendingTicks, bars, nRequests, atStop, invoked, enqueued,
                   dropped, drawn, stopSteps>>

\* update_bars without its TclError handlers: the error leaves update_bars and
\* is caught by process_queue (lines 147-148), which ends the drain
UpdateBarsDraw_Propagates ==
    /\ MainAt("ub_58")
    /\ IF rootAlive
       THEN /\ bars' = IF AllZero(spectrum.data)
                       THEN CollapsedBars ELSE MappedBars(spectrum.data)
            /\ drawn' = Append(drawn, spectrum.id)
            /\ stack' = Goto("pq_142")
       ELSE /\ UNCHANGED <<bars, drawn>>
            /\ stack' = Goto("pq_150")
    /\ spectrum' = NoFrame
    /\ UNCHANGED <<flagVars, stream, data_queue, cbpc,
                   phase, exit_status, rootAlive, pendingTicks, nRequests, atStop,
                   invoked, enqueued, dropped, rendered, stopSteps>>

\* process_queue with "if" in place of "while": the tick ends after the first
\* frame it has passed to update_bars
UpdateBarsDraw_EndsDrain ==
    /\ MainAt("ub_58")
    /\ IF rootAlive
       THEN /\ bars' = IF AllZero(spectrum.data)
                       THEN CollapsedBars ELSE MappedBars(spectrum.data)
            /\ drawn' = Append(drawn, spectrum.id)
            /\ UNCHANGED visualizer_is_running
       ELSE /\ visualizer_is_running' =
                  IF AllZero(spectrum.data) THEN visualizer_is_running ELSE FALSE
            /\ UNCHANGED <<bars, drawn>>
    /\ spectrum' = NoFrame
    /\ stack' = Goto("pq_150")
    /\ UNCHANGED <<app_is_running, audio_is_running, stream, data_queue, cbpc,
                   phase, exit_status, rootAlive, pendingTicks, nRequests, atStop,
                   invoked, enqueued, dropped, rendered, stopSteps>>

\* lines 58-77: the bars are repositioned; canvas.coords raises TclError when
\* the window has been destroyed.  The all-zero branch returns on TclError,
\* the other branch also clears the visualizer's flag.
UpdateBarsDraw ==
    /\ MainAt("ub_58")
    /\ IF rootAlive
       THEN /\ bars' = IF AllZero(spectrum.data)
                       THEN CollapsedBars ELSE MappedBars(spectrum.data)
            /\ drawn' = Append(drawn, spectrum.id)
            /\ UNCHANGED visualizer_is_running
       ELSE /\ visualizer_is_running' =
                  IF AllZero(spectrum.data) THEN visualizer_is_running ELSE FALSE
            /\ UNCHANGED <<bars, drawn>>
    /\ spectrum' = NoFrame
    /\ stack' = Goto("pq_142")
    /\ UNCHANGED <<app_is_running, audio_is_running, stream, data_queue, cbpc,
                   phase, exit_status, rootAlive, pendingTicks, nRequests, atStop,
                   invoked, enqueued, dropped, rendered, stopSteps>>

\* process_queue without lines 150-151: the tick is not scheduled again
ProcessQueueReschedule_Never ==
    /\ MainAt("pq_150")
    /\ stack' = Pop
    /\ UNCHANGED <<flagVars, stream, data_queue, cbpc, spectrum, phase,
                   exit_status, rootAlive, pendingTicks, bars, nRequests, atStop,
                   histVars>>

\* lines 150-151: if self.is_running: self.root.after(16, self.process_queue)
ProcessQueueReschedule ==
    /\ MainAt("pq_150")
    /\ pendingTicks' = IF app_is_running
                       THEN pendingTicks \cup {"process_queue"}
                       ELSE pendingTicks
    /\ stack' = Pop
    /\ UNCHANGED <<flagVars, stream, data_queue, cbpc, spectrum, phase,
                   exit_status, rootAlive, bars, nRequests, atStop, histVars>>

\* ===================== main thread: shutdown requests =====================
\* SIGINT or SIGTERM: signal_handler (lines 133-135) runs on the main thread,
\* on top of whatever the main thread is executing
SignalHandler ==
    /\ phase # "exited"
    /\ nRequests < MaxRequests
    /\ nRequests' = nRequests + 1
    /\ stack' = Append(stack, "stop_155")
    /\ UNCHANGED <<flagVars, stream, data_queue, cbpc, spectrum, phase,
                   exit_status, rootAlive, pendingTicks, bars, histVars, atStop>>

\* WM_DELETE_WINDOW (line 129): an event of the mainloop
WindowClose ==
    /\ phase = "mainloop"
    /\ stack = <<>>
    /\ rootAlive
    /\ nRequests < MaxRequests
    /\ nRequests' = nRequests + 1
    /\ stack' = <<"stop_155">>
    /\ UNCHANGED <<flagVars, stream, data_queue, cbpc, spectrum, phase,
                   exit_status, rootAlive, pendingTicks, bars, histVars, atStop>>

\* ===================== main thread: Application.stop =====================
\* stop with a toggling flag: self.is_running = not self.is_running
StopSetFlag_Toggle ==
    /\ MainAt("stop_155")
    /\ app_is_running' = ~app_is_running
    /\ stack' = Goto("stop_156")
    /\ stopSteps' = Count("flag")
    /\ UNCHANGED <<visualizer_is_running, audio_is_running, stream, data_queue,
                   cbpc, spectrum, phase, exit_status, rootAlive, pendingTicks,
                   bars, nRequests, atStop, pipeVars>>

\* line 155: self.is_running = False
StopSetFlag ==
    /\ MainAt("stop_155")
    /\ app_is_running' = FALSE
    /\ stack' = Goto("stop_156")
    /\ stopSteps' = Count("flag")
    /\ UNCHANGED <<visualizer_is_running, audio_is_running, stream, data_queue,
                   cbpc, spectrum, phase, exit_status, rootAlive, pendingTicks,
                   bars, nRequests, atStop, pipeVars>>

\* line 156 and SpectrumVisualizer.stop (lines 79-80)
StopVisualizer ==
    /\ MainAt("stop_156")
    /\ visualizer_is_running' = FALSE
    /\ stack' = Goto("stop_110")
    /\ stopSteps' = Count("visualizer")
    /\ UNCHANGED <<app_is_running, audio_is_running, stream, data_queue, cbpc,
                   spectrum, phase, exit_status, rootAlive, pendingTicks, bars,
                   nRequests, atStop, pipeVars>>

\* AudioStream.stop with a toggling flag
AudioStopSetFlag_Toggle ==
    /\ MainAt("stop_110")
    /\ audio_is_running' = ~audio_is_running
    /\ stack' = Goto("stop_111")
    /\ stopSteps' = Count("audio_flag")
    /\ UNCHANGED <<app_is_running, visualizer_is_running, stream, data_queue,
                   cbpc, spectrum, phase, exit_status, rootAlive, pendingTicks,
                   bars, nRequests, atStop, pipeVars>>

\* line 157 and AudioStream.stop line 110: self.is_running = False
AudioStopSetFlag ==
    /\ MainAt("stop_110")
    /\ audio_is_running' = FALSE
    /\ stack' = Goto("stop_111")
    /\ stopSteps' = Count("audio_flag")
    /\ UNCHANGED <<app_is_running, visualizer_is_running, stream, data_queue,
                   cbpc, spectrum, phase, exit_status, rootAlive, pendingTicks,
                   bars, nRequests, atStop, pipeVars>>

\* AudioStream.stop with the test of line 111 inverted: the stream stays open
AudioStopStream_LeavesOpen ==
    /\ MainAt("stop_111")
    /\ stream' = stream
    /\ stack' = Goto("stop_160")
    /\ stopSteps' = Count(IF stream = "none" THEN "no_stream"
                          ELSE IF stream = "closed" THEN "reclose" ELSE "close")
    /\ UNCHANGED <<flagVars, data_queue, cbpc, spectrum, phase, exit_status,
                   rootAlive, pendingTicks, bars, nRequests, atStop, pipeVars>>

\* AudioStream.stop lines 111-117: an active stream is stopped, which waits for
\* a callback in progress to return, and the stream is closed; closing a closed
\* stream changes nothing; no stream, nothing to do.
AudioStopStream ==
    /\ MainAt("stop_111")
    /\ stream = "active" => cbpc = "idle"
    /\ stream' = IF stream = "none" THEN "none" ELSE "closed"
    /\ stack' = Goto("stop_160")
    /\ stopSteps' = Count(IF stream = "none" THEN "no_stream"
                          ELSE IF stream = "closed" THEN "reclose" ELSE "close")
    /\ UNCHANGED <<flagVars, data_queue, cbpc, spectrum, phase, exit_status,
                   rootAlive, pendingTicks, bars, nRequests, atStop, pipeVars>>

\* line 160: self.root.after_cancel(self.root.after(16, self.process_queue)):
\* a new timer is created and that timer is cancelled
StopCancelTick ==
    /\ MainAt("stop_160")
    /\ pendingTicks' = (pendingTicks \cup {"stop"}) \ {"stop"}
    /\ stack' = Goto("stop_161")
    /\ stopSteps' = Count("cancel")
    /\ UNCHANGED <<flagVars, stream, data_queue, cbpc, spectrum, phase,
                   exit_status, rootAlive, bars, nRequests, atStop, pipeVars>>

\* lines 161-166: root.quit() and root.destroy(); destroying a destroyed root
\* raises TclError, which is swallowed
StopDestroy ==
    /\ MainAt("stop_161")
    /\ rootAlive' = FALSE
    /\ stack' = Pop
    /\ stopSteps' = Count(IF rootAlive THEN "destroy" ELSE "redestroy")
    /\ UNCHANGED <<flagVars, stream, data_queue, cbpc, spectrum, phase,
                   exit_status, pendingTicks, bars, nRequests, atStop, pipeVars>>

Next ==
    \/ CallbackInvoke
    \/ CallbackCheck
    \/ CallbackPut
    \/ RunStartAudio
    \/ RunScheduleTick
    \/ MainloopExit
    \/ TickFire
    \/ ProcessQueueCheck
    \/ ProcessQueueLoop
    \/ ProcessQueueGet
    \/ UpdateBarsCheck
    \/ UpdateBarsDraw
    \/ ProcessQueueReschedule
    \/ SignalHandler
    \/ WindowClose
    \/ StopSetFlag
    \/ StopVisualizer
    \/ AudioStopSetFlag
    \/ AudioStopStream
    \/ StopCancelTick
    \/ StopDestroy

Spec == Init /\ [][Next]_vars

\* ================== the callback with a failing transform ==================
\* lines 101-107: an exception other than queue.Full is raised inside the try
\* (by the indexing, np.fft.rfft, np.abs, np.where or put_nowait); the only
\* handler is "except queue.Full", so nothing catches it and nothing is put
CallbackRaise ==
    /\ phase # "exited"
    /\ cbpc = "cb_101"
    /\ cbpc' = "cb_raised"
    /\ UNCHANGED <<flagVars, stream, data_queue, stack, spectrum, phase,
                   exit_status, rootAlive, pendingTicks, bars, nRequests, atStop,
                   histVars>>

\* the exception leaves _audio_callback (line 97) for the PortAudio wrapper,
\* which reports it and goes on delivering buffers
CallbackUnwind ==
    /\ phase # "exited"
    /\ cbpc = "cb_raised"
    /\ cbpc' = "idle"
    /\ UNCHANGED <<flagVars, stream, data_queue, stack, spectrum, phase,
                   exit_status, rootAlive, pendingTicks, bars, nRequests, atStop,
                   histVars>>

NextFaults ==
    \/ Next
    \/ CallbackRaise
    \/ CallbackUnwind

SpecFaults == Init /\ [][NextFaults]_vars

\* ============ the running application with an endless stream ============
\* The same callback and tick as above for a device that never stops
\* delivering buffers, with no shutdown request.  The history variables are
\* left alone so that the state space is finite; every frame carries id 1.
CallbackInvokeEndless ==
    /\ phase # "exited"
    /\ stream = "active"
    /\ cbpc = "idle"
    /\ cbpc' = "cb_98"
    /\ UNCHANGED <<flagVars, stream, data_queue, stack, spectrum, phase,
                   exit_status, rootAlive, pendingTicks, bars, nRequests, atStop,
                   histVars>>

\* lines 101-107
CallbackPutEndless ==
    /\ phase # "exited"
    /\ cbpc = "cb_101"
    /\ \E raw \in RawSpectra :
         LET frame == [id |-> Attempts + 1, data |-> SpectrumTransform(raw)]
         IN  IF Full(data_queue)
             THEN UNCHANGED data_queue
             ELSE data_queue' = put_nowait(data_queue, frame)
    /\ cbpc' = "idle"
    /\ UNCHANGED <<flagVars, stream, stack, spectrum, phase, exit_status,
                   rootAlive, pendingTicks, bars, nRequests, atStop, histVars>>

\* lines 52-53
UpdateBarsCheckEndless ==
    /\ MainAt("ub_52")
    /\ IF visualizer_is_running
       THEN /\ stack' = Goto("ub_58")
            /\ UNCHANGED spectrum
       ELSE /\ stack' = Goto("pq_142")
            /\ spectrum' = NoFrame
    /\ UNCHANGED <<flagVars, stream, data_queue, cbpc, phase, exit_status,
                   rootAlive, pendingTicks, bars, nRequests, atStop, histVars>>

\* lines 58-77
UpdateBarsDrawEndless ==
    /\ MainAt("ub_58")
    /\ IF rootAlive
       THEN /\ bars' = IF AllZero(spectrum.data)
                       THEN CollapsedBars ELSE MappedBars(spectrum.data)
            /\ UNCHANGED visualizer_is_running
       ELSE /\ visualizer_is_running' =
                  IF AllZero(spectrum.data) THEN visualizer_is_running ELSE FALSE
            /\ UNCHANGED bars
    /\ spectrum' = NoFrame
    /\ stack' = Goto("pq_142")
    /\ UNCHANGED <<app_is_running, audio_is_running, stream, data_queue, cbpc,
                   phase, exit_status, rootAlive, pendingTicks, nRequests, atStop,
                   histVars>>

\* the audio thread: PortAudio calls back for every buffer of the device
AudioThreadEndless ==
    \/ CallbackInvokeEndless
    \/ CallbackCheck
    \/ CallbackPutEndless

\* the main thread: run(), then the Tk mainloop firing the due timer
MainThreadEndless ==
    \/ RunStartAudio
    \/ RunScheduleTick
    \/ TickFire
    \/ ProcessQueueCheck
    \/ ProcessQueueLoop
    \/ ProcessQueueGet
    \/ UpdateBarsCheckEndless
    \/ UpdateBarsDrawEndless
    \/ ProcessQueueReschedule

NextEndless == AudioThreadEndless \/ MainThreadEndless

\* both threads keep being scheduled: a thread that can take a step
\* eventually takes one
SpecEndless ==
    /\ Init
    /\ [][NextEndless]_vars
    /\ WF_vars(AudioThreadEndless)
    /\ WF_vars(MainThreadEndless)

\* ================== one shutdown request, with marks ==================
\* The program with a single shutdown request, delivered at any point.  The
\* two flag assignments of stop also record in atStop how many frames the
\* queue had accepted and how many had been taken from it at that moment.
Accepted == Len(enqueued)
Taken == Len(enqueued) - Len(data_queue)

SignalHandlerFirst == nRequests = 0 /\ SignalHandler
WindowCloseFirst == nRequests = 0 /\ WindowClose

\* line 155
StopSetFlagMarked ==
    /\ MainAt("stop_155")
    /\ app_is_running' = FALSE
    /\ stack' = Goto("stop_156")
    /\ stopSteps' = Count("flag")
    /\ atStop' = [atStop EXCEPT !.enq = Accepted, !.deq = Taken]
    /\ UNCHANGED <<visualizer_is_running, audio_is_running, stream, data_queue,
                   cbpc, spectrum, phase, exit_status, rootAlive, pendingTicks,
                   bars, nRequests, pipeVars>>

\* line 110
AudioStopSetFlagMarked ==
    /\ MainAt("stop_110")
    /\ audio_is_running' = FALSE
    /\ stack' = Goto("stop_111")
    /\ stopSteps' = Count("audio_flag")
    /\ atStop' = [atStop EXCEPT !.enqAudio = Accepted]
    /\ UNCHANGED <<app_is_running, visualizer_is_running, stream, data_queue,
                   cbpc, spectrum, phase, exit_status, rootAlive, pendingTicks,
                   bars, nRequests, pipeVars>>

NextShutdown ==
    \/ CallbackInvoke
    \/ CallbackCheck
    \/ CallbackPut
    \/ RunStartAudio
    \/ RunScheduleTick
    \/ MainloopExit
    \/ TickFire
    \/ ProcessQueueCheck
    \/ ProcessQueueLoop
    \/ ProcessQueueGet
    \/ UpdateBarsCheck
    \/ UpdateBarsDraw
    \/ ProcessQueueReschedule
    \/ SignalHandlerFirst
    \/ WindowCloseFirst
    \/ StopSetFlagMarked
    \/ StopVisualizer
    \/ AudioStopSetFlagMarked
    \/ AudioStopStream
    \/ StopCancelTick
    \/ StopDestroy

SpecShutdown == Init /\ [][NextShutdown]_vars

\* ============== the running application, ticks kept firing ==============
\* The program with no shutdown request: run() starts the stream and the
\* mainloop, the device delivers its buffers, the mainloop fires every due
\* tick and the main thread is never held up for ever.
MainThreadRunning ==
    \/ RunStartAudio
    \/ RunScheduleTick
    \/ TickFire
    \/ ProcessQueueCheck
    \/ ProcessQueueLoop
    \/ ProcessQueueGet
    \/ UpdateBarsCheck
    \/ UpdateBarsDraw
    \/ ProcessQueueReschedule

AudioThreadRunning ==
    \/ CallbackInvoke
    \/ CallbackCheck
    \/ CallbackPut

NextRunning == AudioThreadRunning \/ MainThreadRunning

SpecRunning ==
    /\ Init
    /\ [][NextRunning]_vars
    /\ WF_vars(MainThreadRunning)

\* =============================== claims ===============================
FrameIds(q) == [i \in 1..Len(q) |-> q[i].id]
Ids(s) == {s[i] : i \in DOMAIN s}
Min(a, b) == IF a < b THEN a ELSE b
\* the frames taken out of the queue so far, the one in hand included
Dequeued ==
    IF spectrum.id # 0 /\ spectrum.id \notin Ids(rendered)
    THEN Append(rendered, spectrum.id) ELSE rendered
\* the main thread executes a step of the code on top of its stack
MainStep == stack' # stack /\ Len(stack') <= Len(stack)

\* C1: in every reachable state the queue holds between 0 and maxsize frames.
QueueWithinCapacity ==
    Len(data_queue) >= 0 /\ Len(data_queue) <= maxsize

\* C1 witness: a full queue that has already refused a frame, after a drain
\* and a shutdown request.
QueueFullAfterDrop ==
    /\ Len(data_queue) = maxsize
    /\ dropped > 0
    /\ Len(rendered) > 0
    /\ nRequests > 0

\* C2: k pushes with no drain in between retain the first min(k, maxsize)
\* frames and drop exactly the k - maxsize others; after such an overflow the
\* drain hands the retained frames out in push order.
BurstRetention ==
    LET k == Attempts
        n == Min(k, maxsize)
    IN  /\ Dequeued = <<>> =>
              /\ FrameIds(data_queue) = [i \in 1..n |-> i]
              /\ dropped = k - n
        /\ (k > maxsize /\ (maxsize + 1) \notin Ids(enqueued)) =>
              \A i \in 1..Min(Len(Dequeued), maxsize) : Dequeued[i] = i

\* C2 witness: maxsize + 2 pushes, two of them dropped, and the retained
\* frames drained completely.
BurstDrained ==
    /\ Attempts = maxsize + 2
    /\ dropped = 2
    /\ rendered = [i \in 1..maxsize |-> i]
    /\ data_queue = <<>>

\* C3: the push step of the callback is always enabled, whatever the queue
\* holds; below capacity it appends the frame at the tail, at capacity it
\* leaves the queue as it is and counts a drop; either way the callback
\* returns.
PushNeverWaits ==
    /\ []((cbpc = "cb_101" /\ phase # "exited") => ENABLED CallbackPut)
    /\ [][(cbpc = "cb_101" /\ cbpc' # "cb_101") =>
            /\ cbpc' = "idle"
            /\ IF Len(data_queue) < maxsize
               THEN /\ Len(data_queue') = Len(data_queue) + 1
                    /\ SubSeq(data_queue', 1, Len(data_queue)) = data_queue
                    /\ data_queue'[Len(data_queue')].id = Attempts + 1
                    /\ enqueued' = Append(enqueued, Attempts + 1)
                    /\ dropped' = dropped
               ELSE /\ data_queue' = data_queue
                    /\ enqueued' = enqueued
                    /\ dropped' = dropped + 1]_vars

\* C3 witness: the callback stands at its push while the queue is full.
PushAtFullQueue ==
    /\ cbpc = "cb_101"
    /\ Len(data_queue) = maxsize
    /\ phase # "exited"

\* C4: the frames passed to update_bars are, in order and without gaps, the
\* first frames that were enqueued; with the frame in hand and the queue they
\* make up everything that was enqueued.
RenderedInEnqueueOrder ==
    /\ Len(rendered) <= Len(enqueued)
    /\ \A i \in DOMAIN rendered : rendered[i] = enqueued[i]
    /\ Dequeued \o FrameIds(data_queue) = enqueued

\* C4 witness: three frames rendered around a drop, callbacks and ticks
\* having interleaved.
RenderedAroundDrop ==
    /\ Len(rendered) = 3
    /\ rendered[3] = 4
    /\ dropped = 1

\* C5: a callback that finds the session stopped returns without computing or
\* pushing; once the session is stopped and no callback is past the gate, no
\* spectrum is ever computed or pushed again.
StoppedCallbackReturns ==
    /\ [][(cbpc = "cb_98" /\ ~audio_is_running /\ cbpc' # "cb_98") =>
            /\ cbpc' = "idle"
            /\ UNCHANGED <<data_queue, enqueued, dropped>>]_vars
    /\ [][(~audio_is_running /\ cbpc # "cb_101") =>
            /\ cbpc' # "cb_101"
            /\ UNCHANGED <<enqueued, dropped>>
            /\ Len(data_queue') <= Len(data_queue)]_vars

\* C5 witness: a callback was invoked on the stopped session and has returned
\* without reaching the push.
CallbackReturnedEarly ==
    /\ ~audio_is_running
    /\ cbpc = "idle"
    /\ invoked > Attempts
    /\ data_queue # <<>>

\* C6 as stated: one flag, so the flag AudioCapture reads and the flag
\* RenderLoop reads (and the visualizer's) always agree.
SingleLifecycleFlag ==
    /\ app_is_running = audio_is_running
    /\ app_is_running = visualizer_is_running

\* C6 amended: each of the three flags starts as running and never goes back
\* from stopped to running; they are cleared in the order Application,
\* SpectrumVisualizer, AudioStream.
FlagsMonotone ==
    /\ flagVars = <<TRUE, TRUE, TRUE>>
    /\ [][/\ ~app_is_running => ~app_is_running'
          /\ ~visualizer_is_running => ~visualizer_is_running'
          /\ ~audio_is_running => ~audio_is_running'
          /\ ~audio_is_running' => ~visualizer_is_running'
          /\ ~visualizer_is_running' => ~app_is_running']_vars

\* C6 witness: a second stop has set the flag again and all three flags are
\* still stopped.
FlagsStoppedTwice ==
    /\ stopSteps["flag"] = 2
    /\ stopSteps["audio_flag"] = 2
    /\ ~app_is_running /\ ~visualizer_is_running /\ ~audio_is_running

\* C7: a tick that finds the application stopped at its entry returns at once:
\* nothing is dequeued, nothing is drawn, no tick is scheduled; and once the
\* application is stopped, process_queue schedules no tick and no tick starts.
StoppedTickDoesNothing ==
    /\ [][(MainAt("pq_138") /\ ~app_is_running /\ MainStep) =>
            /\ stack' = Pop
            /\ UNCHANGED <<data_queue, spectrum, rendered, drawn, bars,
                           pendingTicks>>]_vars
    /\ [][~app_is_running =>
            /\ ("process_queue" \in pendingTicks' => "process_queue" \in pendingTicks)
            /\ ~(stack = <<>> /\ stack' = <<"pq_138">>)]_vars

\* C7 witness: a tick has fired, a shutdown request has run to its end before
\* the tick's first line, and frames are waiting in the queue.
TickFindsAppStopped ==
    /\ stack = <<"pq_138">>
    /\ ~app_is_running
    /\ data_queue # <<>>
    /\ phase # "exited"

\* C8 as stated: when Application.stop completes, no render tick is pending
\* and the audio stream is closed (or was never opened).
StopLeavesNoPendingTick ==
    [][(MainAt("stop_161") /\ MainStep) =>
         /\ pendingTicks' = {}
         /\ stream' \in {"closed", "none"}]_vars

\* C9: the steps of stop come in a fixed order.  The first thing any stop does
\* is clear the running flag; a stream step follows a flag step of the same
\* call, a tick cancellation a stream step, a teardown a tick cancellation;
\* the root window is destroyed only with the flags cleared and the stream
\* not open, and a closed stream has no callback in progress.
StreamSteps == stopSteps["close"] + stopSteps["reclose"] + stopSteps["no_stream"]
Teardowns == stopSteps["destroy"] + stopSteps["redestroy"]
StopRunsOnce ==
    /\ stopSteps["flag"] <= 1
    /\ StreamSteps <= 1
    /\ stopSteps["cancel"] <= 1
    /\ Teardowns <= 1

\* C12: when the window is gone during an update_bars call, for an all-zero
\* frame as well as for a non-zero one, the visualizer is stopped after the
\* call, the call returns to the drain loop without an error and without
\* having drawn, and once no drawing is in progress on the destroyed window
\* no later frame starts one.
DrawPending == \E i \in 1..Len(stack) : stack[i] = "ub_58"
DisplayLossContained ==
    /\ [](~rootAlive => ~visualizer_is_running)
    /\ [][/\ (MainAt("ub_58") /\ MainStep /\ ~rootAlive) =>
                /\ ~visualizer_is_running'
                /\ stack' = Goto("pq_142")
                /\ UNCHANGED <<bars, drawn, app_is_running, audio_is_running,
                               data_queue>>
          /\ (~rootAlive /\ ~DrawPending) => ~DrawPending']_vars

\* C12 witness: update_bars has passed its entry check with an all-zero frame
\* and the window was destroyed before it repositions the bars.
ZeroFrameOnDestroyedWindow ==
    /\ MainAt("ub_58")
    /\ ~rootAlive
    /\ AllZero(spectrum.data)
    /\ stopSteps["destroy"] = 1

\* C13: no error raised inside the audio callback, a failure of the transform
\* or of the push included, ever propagates out of the callback.
\* (Counterexample: the callback catches queue.Full only; any other exception
\* raised between line 102 and line 105 leaves it.)
CallbackContainsErrors == cbpc # "cb_raised"

\* C14: every execution of main() that ends, ends with exit status 0: after a
\* normal shutdown as well as when the device cannot be opened at start();
\* the process has no exit status before it ends.
ExitStatusZero ==
    /\ phase = "exited" => exit_status = 0
    /\ phase # "exited" => exit_status = -1

\* C14 witness: the process has exited because start() failed, with no
\* shutdown request made and no stream delivering.
ExitedOnDeviceFailure ==
    /\ phase = "exited"
    /\ nRequests = 0
    /\ stream \in {"none", "open"}

\* C15: every frame that is in the queue, or taken from it, has exactly
\* NUM_BARS elements, each of them 0 or above NOISE_THRESHOLD, and is the
\* transform of a delivered buffer in which every magnitude at or below the
\* threshold became 0 and every magnitude above it passed unchanged, bin by
\* bin from bin 1.
InTransit ==
    {data_queue[i] : i \in 1..Len(data_queue)}
        \cup (IF spectrum = NoFrame THEN {} ELSE {spectrum})
FramesGated ==
    \A f \in InTransit :
        /\ Len(f.data) = NUM_BARS
        /\ \A i \in 1..NUM_BARS :
               f.data[i] = 0 \/ f.data[i] > NOISE_THRESHOLD
        /\ \E raw \in RawSpectra :
               \A i \in 1..NUM_BARS :
                   f.data[i] = IF raw[i] <= NOISE_THRESHOLD THEN 0 ELSE raw[i]

\* C15 witness: the queue holds a frame in which sub-threshold bins were
\* zeroed next to bins that passed, and the frame taken from it is all zero.
GatedFramesQueued ==
    /\ \E i \in 1..Len(data_queue) :
           /\ data_queue[i].data[6] = 250
           /\ data_queue[i].data[3] = 0
    /\ spectrum # NoFrame
    /\ AllZero(spectrum.data)

\* C16: when update_bars draws a frame with a non-zero element, every bar's
\* height lies in 0..max_height, bar i is derived from element i (a larger
\* element never gives a lower bar, a zero element gives height 0) and the
\* bars of the frame's largest element have height max_height exactly; when
\* it draws an all-zero frame every bar has height 0.
BarHeightOf(b) == b[4] - b[2]
BarsFollowFrame ==
    [][(MainAt("ub_58") /\ MainStep /\ rootAlive) =>
          LET s == spectrum.data
          IN  /\ \A i \in 1..NUM_BARS :
                     /\ BarHeightOf(bars'[i]) \in 0..max_height
                     /\ s[i] = 0 => BarHeightOf(bars'[i]) = 0
                     /\ (s[i] = Max(s) /\ ~AllZero(s)) =>
                            BarHeightOf(bars'[i]) = max_height
                     /\ \A j \in 1..NUM_BARS :
                            s[i] <= s[j] =>
                                BarHeightOf(bars'[i]) <= BarHeightOf(bars'[j])
              /\ ~AllZero(s) =>
                     \E i \in 1..NUM_BARS : BarHeightOf(bars'[i]) = max_height
              /\ AllZero(s) => bars' = CollapsedBars]_vars

\* C16 witness: a tone frame has been drawn: the bar of its peak is at full
\* height, the bar of its harmonic in between, a gated bar at 0.
ToneFrameDrawn ==
    /\ drawn # <<>>
    /\ BarHeightOf(bars[6]) = max_height
    /\ BarHeightOf(bars[12]) = 160
    /\ BarHeightOf(bars[3]) = 0

\* C17: a render tick that runs while the application is running leaves its
\* drain loop only with the queue empty and with every frame enqueued so far
\* passed to update_bars and drawn, in arrival order; every frame it takes is
\* the oldest one and goes to update_bars; with the queue empty it ends the
\* drain without touching the display; and when it ends it leaves exactly one
\* tick scheduled.
TickDrainsAll ==
    [][/\ (app_is_running /\ stack # <<>> /\ MainStep
              /\ Top # "pq_150" /\ stack' = Goto("pq_150")) =>
            /\ data_queue = <<>>
            /\ rendered = enqueued
            /\ drawn = enqueued
       /\ (app_is_running /\ MainAt("pq_143") /\ MainStep
              /\ data_queue # <<>>) =>
            /\ spectrum' = Head(data_queue)
            /\ data_queue' = Tail(data_queue)
            /\ stack' = Goto("ub_52")
       /\ (app_is_running /\ MainAt("pq_142") /\ MainStep
              /\ data_queue = <<>>) =>
            /\ stack' = Goto("pq_150")
            /\ UNCHANGED <<bars, drawn, rendered, data_queue>>
       /\ (app_is_running /\ MainAt("pq_150") /\ MainStep) =>
            /\ pendingTicks' = {"process_queue"}
            /\ stack' = <<>>
            /\ UNCHANGED <<bars, drawn, rendered, data_queue>>]_vars

\* C17 witness: a tick of the running application has drained at least two
\* frames and is about to schedule its successor.
TickDrainedFrames ==
    /\ MainAt("pq_150")
    /\ app_is_running
    /\ Len(drawn) >= 2
    /\ drawn = enqueued
    /\ pendingTicks = {}

\* C18: every render tick terminates: whenever process_queue is running it
\* eventually returns to the mainloop, also while the audio callback keeps
\* enqueuing frames during the drain.
\* (Counterexample: the drain loop of lines 142-144 ends only on an empty
\* queue; a callback that puts one frame per iteration keeps it running.)
TickReturns == [](stack # <<>> => <>(stack = <<>>))

\* C19: once Application.stop has set the running flag false, at most one
\* further frame is processed: the callback enqueues at most one more frame
\* and the render loop takes at most one more frame from the queue.
\* (Counterexample: the callback gates on AudioStream.is_running, which stop
\* clears two steps later; callbacks in between enqueue as the queue allows.)
OneFrameAfterStop ==
    atStop.enq >= 0 =>
        /\ Accepted <= atStop.enq + 1
        /\ Taken <= atStop.deq + 1

\* C19, amended: after line 155 the render loop takes at most one more frame
\* from the queue, and after line 110 (AudioStream.is_running false) the
\* callback enqueues at most one more frame.
OneFrameAfterOwnFlag ==
    /\ atStop.deq >= 0 => Taken <= atStop.deq + 1
    /\ atStop.enqAudio >= 0 => Accepted <= atStop.enqAudio + 1

\* C19 witness: stop arrived during a drain and during a callback; one frame
\* was taken from the queue after line 155 and one was enqueued after line 110.
LateFramesAfterStop ==
    /\ atStop.enqAudio >= 0
    /\ Taken = atStop.deq + 1
    /\ Accepted = atStop.enqAudio + 1

\* C20: while the application keeps running and its ticks keep firing, every
\* frame the queue accepted is eventually taken from it, passed to update_bars
\* and drawn, and no frame is passed to update_bars twice.
EveryFrameRendered ==
    /\ \A k \in 1..MaxCallbacks :
           []((\E i \in 1..Len(enqueued) : enqueued[i] = k) =>
                <>(/\ \E i \in 1..Len(rendered) : rendered[i] = k
                   /\ \E i \in 1..Len(drawn) : drawn[i] = k))
    /\ [](\A i, j \in 1..Len(rendered) :
              rendered[i] = rendered[j] => i = j)

\* C20 witness: frames were enqueued before and between ticks, one callback
\* found the queue full, and every accepted frame has been rendered.
AllAcceptedRendered ==
    /\ Len(enqueued) >= 3
    /\ dropped >= 1
    /\ rendered = enqueued
    /\ drawn = enqueued
    /\ app_is_running
    /\ stack = <<>>

====
